---- MODULE Spec2Model ----
(***************************************************************************)
(* A model of the OpenAccess client (src/OpenAccess/openaccess.py): the    *)
(* session (token and header map), the requests it puts on the wire, the   *)
(* paginated retrieve_panels / retrieve_readers loops, the cached panel    *)
(* list, and the OpenDoor command.                                         *)
(*                                                                         *)
(* Conventions.  A Python string that is assembled from pieces (a URL, an  *)
(* f-string message) is the sequence of its pieces, so "contains the word" *)
(* and "starts with" are checkable.  An integer formatted into a string is *)
(* ToString of it.  An HTTP body is either JSON text (json = TRUE, value   *)
(* is what json.loads yields) or text that is not JSON (json = FALSE).     *)
(* A finished call leaves its outcome in ret[c]: a returned value or the   *)
(* exception that escaped.                                                 *)
(***************************************************************************)
EXTENDS Integers, Sequences, FiniteSets, TLC

(* ------------------------------ bounds -------------------------------- *)
\* the server holds at most MaxPages pages
MaxPages == 2

Callers == {1, 2}
\* the rows the server can hold; a page holds at most one
Rows == {1, 2}

BoundedSeq(S, n) == UNION {[1..k -> S] : k \in 0..n}

RECURSIVE Concat(_)
Concat(ss) == IF ss = <<>> THEN <<>> ELSE Head(ss) \o Concat(Tail(ss))

Contains(msg, w) == \E k \in DOMAIN msg : msg[k] = w

(* --------------------- configuration (class attributes) --------------- *)
API_URL == "https://localhost:8080/api/access/onguard/openaccess/"
DEFAULT_PAGE_SIZE == "20"
SUCCESS == <<"Success">>
APPLICATION_ID == "APP-ID"

NoToken == "<unset>"
Tokens == {"T1", "T2"}
Credentials == {[user_name |-> "admin", password |-> "pw", directory_id |-> "id-1"]}
PanelIds == {3}
ReaderArgs == {[panelId |-> 3, id |-> 7], [panelId |-> 5, id |-> 1]}

(* ------------------------------ variables ----------------------------- *)
VARIABLES
    session_token,  \* self.session_token (NoToken: the attribute is not set)
    headers,        \* self.client.headers
    panels,         \* self.panels
    pc,             \* per caller: "idle", "request", "extend", "return"
    op,             \* per caller: the method it last entered
    arg,            \* per caller: the argument of the call (panelId, reader), else -1
    i,              \* per caller: the page being fetched (1, then the loop variable)
    pageCount,      \* per caller: local pageCount
    result,         \* per caller: local result (the decoded page)
    readers,        \* per caller: local readers list of retrieve_readers
    ret,            \* per caller: how the last call ended
    got,            \* per caller: the requests this call sent, with the items each returned
    overlapped,     \* per caller: another call was in progress during this one
    lastReq,        \* the request most recently put on the wire
    wireSeq,        \* flips each time a request is put on the wire
    lastResp,       \* what the transport delivered for lastReq
    srv,            \* the server: its pages of rows, and whether it reports their count
    issued,         \* token carried by the response of the last sign_in that returned SUCCESS
    panelPages,     \* item lists received by the most recently started retrieve_panels
    hadPanels       \* the cache held items when that retrieve_panels was entered

vars == <<session_token, headers, panels, pc, op, arg, i, pageCount, result, readers,
          ret, got, overlapped, lastReq, wireSeq, lastResp, srv, issued, panelPages,
          hadPanels>>

clientVars == <<session_token, headers>>
callVars == <<pc, op, arg, i, pageCount, result, readers, ret, got, overlapped>>
wireVars == <<lastReq, wireSeq, lastResp>>

(* ------------------------------ outcomes ------------------------------ *)
NoRet == [kind |-> "none", val |-> <<>>, exc |-> ""]
Return(v) == [kind |-> "return", val |-> v, exc |-> ""]
Raise(e) == [kind |-> "raise", val |-> <<>>, exc |-> e]
None == <<"None">>

(* ------------------------------ transport ----------------------------- *)
JsonBody(v) == [json |-> TRUE, value |-> v, text |-> <<"json">>]
TextBody(t) == [json |-> FALSE, value |-> <<>>, text |-> <<t>>]

Statuses == {200, 201, 401, 500}
Reason(status) ==
    CASE status = 200 -> "OK"
      [] status = 201 -> "Created"
      [] status = 401 -> "Unauthorized"
      [] OTHER -> "Internal Server Error"

Response(status, body) ==
    [kind |-> "response", status_code |-> status, reason |-> Reason(status), body |-> body]
Failure(e) ==
    [kind |-> "failure", status_code |-> 0, reason |-> e, body |-> TextBody("")]
NoResp == Failure("")

\* requests.Response.ok: raise_for_status() raises for 400 <= status < 600 only
ok(response) == ~(400 <= response.status_code /\ response.status_code < 600)

\* json.loads(response.content.decode('utf-8')): a value, or ValueError escapes
parse_response_raises(response) == ~response.body.json
parse_response(response) == response.body.value

build_uri_with_version(method_name, version) ==
    <<API_URL, method_name, "?version=", version>>

InitHeaders ==
    [h \in {"Application-Id", "Content-Type", "Accept"} |->
        CASE h = "Application-Id" -> APPLICATION_ID
          [] OTHER -> "application/json"]

\* dict.update: keys of u are set, the others kept
update_keeps_existing(h, u) == h @@ u
Update(h, u) == u @@ h

HeaderToken(h) == IF "Session-Token" \in DOMAIN h THEN h["Session-Token"] ELSE NoToken

Request(method, url, hdrs, body) ==
    [method |-> method, url |-> url, headers |-> hdrs, body |-> body]
NoReq == Request("", <<>>, InitHeaders, <<>>)

Send(req, resp) ==
    /\ lastReq' = req
    /\ wireSeq' = 1 - wireSeq
    /\ lastResp' = resp

(* ------------------------------ the server ---------------------------- *)
PageLists == BoundedSeq(Rows, 1)
RECURSIVE TotalItems(_)
TotalItems(pages) == IF pages = <<>> THEN 0 ELSE Len(Head(pages)) + TotalItems(Tail(pages))

\* the server either reports the true number of items or reports zero
ServerConfigs ==
    {[pages |-> p, counted |-> b] :
        p \in BoundedSeq(PageLists, MaxPages), b \in BOOLEAN}

\* the value following a "&key=" piece of the URL
Param(url, key) ==
    IF \E k \in 1..(Len(url) - 1) : url[k] = key
    THEN url[(CHOOSE k \in 1..(Len(url) - 1) : url[k] = key) + 1]
    ELSE ""

PageOf(url) ==
    IF \E p \in 0..(MaxPages + 1) : ToString(p) = Param(url, "&page_number=")
    THEN CHOOSE p \in 0..(MaxPages + 1) : ToString(p) = Param(url, "&page_number=")
    ELSE 0

PanelItem(row) ==
    [property_value_map |->
        [ID |-> row, Name |-> ToString(row), IsOnline |-> (row % 2 = 1), PanelType |-> "LNL-2220"]]

ReaderItem(row, panel) ==
    [property_value_map |->
        [PanelID |-> panel, ReaderID |-> row, Name |-> ToString(row),
         ControlType |-> "door", HostName |-> "host"]]

ItemsOf(url, rows) ==
    IF Param(url, "&type_name=") = "Lnl_Panel"
    THEN [k \in DOMAIN rows |-> PanelItem(rows[k])]
    ELSE [k \in DOMAIN rows |-> ReaderItem(rows[k], Param(url, "&filter=panelid = "))]

ServerInstances(req) ==
    Response(200, JsonBody(
        [item_list |-> IF PageOf(req.url) \in DOMAIN srv.pages
                       THEN ItemsOf(req.url, srv.pages[PageOf(req.url)])
                       ELSE <<>>,
         total_pages |-> Len(srv.pages),
         count |-> IF srv.counted THEN TotalItems(srv.pages) ELSE 0]))

AuthBodies ==
    {JsonBody([session_token |-> t]) : t \in Tokens}
        \cup {JsonBody([error |-> "no token"]), TextBody("<html>")}

AuthOutcomes ==
    {Failure("ConnectionError")} \cup {Response(s, b) : s \in Statuses, b \in AuthBodies}

(* ------------------------------ __init__ ------------------------------ *)
NoResult == [item_list |-> <<>>, total_pages |-> 0, count |-> 0]

Init ==
    /\ session_token = NoToken
    /\ headers = InitHeaders
    /\ panels = <<>>
    /\ pc = [c \in Callers |-> "idle"]
    /\ op = [c \in Callers |-> ""]
    /\ arg = [c \in Callers |-> -1]
    /\ i = [c \in Callers |-> 1]
    /\ pageCount = [c \in Callers |-> 0]
    /\ result = [c \in Callers |-> NoResult]
    /\ readers = [c \in Callers |-> <<>>]
    /\ ret = [c \in Callers |-> NoRet]
    /\ got = [c \in Callers |-> <<>>]
    /\ overlapped = [c \in Callers |-> FALSE]
    /\ lastReq = NoReq
    /\ wireSeq = 0
    /\ lastResp = NoResp
    /\ srv \in ServerConfigs
    /\ issued = NoToken
    /\ panelPages = <<>>
    /\ hadPanels = FALSE

AllIdle == \A c \in Callers : pc[c] = "idle"

\* a call that runs to its end in one step: its locals are dropped, its outcome kept
Finish(c, name, a, outcome) ==
    /\ pc[c] = "idle"
    /\ op' = [op EXCEPT ![c] = name]
    /\ arg' = [arg EXCEPT ![c] = a]
    /\ ret' = [ret EXCEPT ![c] = outcome]
    /\ got' = [got EXCEPT ![c] = <<>>]
    /\ i' = [i EXCEPT ![c] = 1]
    /\ pageCount' = [pageCount EXCEPT ![c] = 0]
    /\ result' = [result EXCEPT ![c] = NoResult]
    /\ readers' = [readers EXCEPT ![c] = <<>>]
    /\ overlapped' = [overlapped EXCEPT ![c] = FALSE]
    /\ UNCHANGED pc

(* ------------------------------ sign_in ------------------------------- *)
ConnectionMessage(e) ==
    <<"Connection", "was", "unexpectedly", "closed.", "Make", "sure", "you", "don't",
      "have", "anything", "other", "than", "OpenAccess", "running", "on", "port",
      "8080.", "Message:", e>>

ServerErrorMessage(status, detail) ==
    <<"A", "server", "error", "occurred", "during", "your", "request.", "If", "the",
      "status", "code", "is", "available,", "it", "is", "shown", "below",
      ToString(status), ":", detail>>

\* except requests.exceptions.RequestException as e: return f"Connection was ..."
reraise(e) == Raise(e)
on_request_exception(e) == Return(ConnectionMessage(e))

SessionTokenHeader(tok) == [h \in {"Session-Token"} |-> tok]

\* what sign_in does with the outcome of its POST: its result and the session it leaves
sign_in_forgets(outcome, tok, hdrs) ==
    IF outcome.kind = "failure"
    THEN [ret |-> on_request_exception(outcome.reason), token |-> tok, headers |-> hdrs]
    ELSE IF ok(outcome)
    THEN IF parse_response_raises(outcome)
         THEN [ret |-> Raise("JSONDecodeError"), token |-> tok, headers |-> hdrs]
         ELSE IF "session_token" \notin DOMAIN parse_response(outcome)
         THEN [ret |-> Raise("KeyError"), token |-> tok, headers |-> hdrs]
         ELSE [ret |-> Return(SUCCESS),
               token |-> parse_response(outcome)["session_token"],
               headers |-> Update(hdrs,
                   SessionTokenHeader(parse_response(outcome)["session_token"]))]
    ELSE [ret |-> Return(ServerErrorMessage(outcome.status_code, outcome.reason)),
          token |-> NoToken, headers |-> InitHeaders]

sign_in_result(outcome, tok, hdrs) ==
    IF outcome.kind = "failure"
    THEN [ret |-> on_request_exception(outcome.reason), token |-> tok, headers |-> hdrs]
    ELSE IF ok(outcome)
    THEN IF parse_response_raises(outcome)
         THEN [ret |-> Raise("JSONDecodeError"), token |-> tok, headers |-> hdrs]
         ELSE IF "session_token" \notin DOMAIN parse_response(outcome)
         THEN [ret |-> Raise("KeyError"), token |-> tok, headers |-> hdrs]
         ELSE [ret |-> Return(SUCCESS),
               token |-> parse_response(outcome)["session_token"],
               headers |-> Update(hdrs,
                   SessionTokenHeader(parse_response(outcome)["session_token"]))]
    ELSE [ret |-> Return(ServerErrorMessage(outcome.status_code, outcome.reason)),
          token |-> tok, headers |-> hdrs]

sign_in(c) ==
    \E user \in Credentials, outcome \in AuthOutcomes :
        LET req == Request("POST", build_uri_with_version("authentication", "1.0"),
                           headers, user)
            r == sign_in_result(outcome, session_token, headers)
        IN /\ Send(req, outcome)
           /\ session_token' = r.token
           /\ headers' = r.headers
           /\ issued' = IF r.ret = Return(SUCCESS)
                        THEN parse_response(outcome)["session_token"]
                        ELSE issued
           /\ Finish(c, "sign_in", -1, r.ret)
           /\ UNCHANGED <<panels, srv, panelPages, hadPanels>>

(* ------------------------- request_instances -------------------------- *)
request_instances_url(type, page_num, panel_id) ==
    build_uri_with_version("instances", "1.0")
        \o <<"&type_name=", type, "&page_number=", ToString(page_num),
             "&page_size=", DEFAULT_PAGE_SIZE, "&order_by=name">>
        \o (IF panel_id # -1 THEN <<"&filter=panelid = ", ToString(panel_id)>> ELSE <<>>)

get_panels_from_result(res) ==
    [k \in DOMAIN res.item_list |->
        [id |-> res.item_list[k].property_value_map.ID,
         name |-> res.item_list[k].property_value_map.Name,
         status |-> (res.item_list[k].property_value_map.IsOnline = TRUE),
         type |-> res.item_list[k].property_value_map.PanelType]]

get_readers_from_result(res) ==
    [k \in DOMAIN res.item_list |->
        [panelId |-> res.item_list[k].property_value_map.PanelID,
         id |-> res.item_list[k].property_value_map.ReaderID,
         name |-> res.item_list[k].property_value_map.Name,
         type |-> res.item_list[k].property_value_map.ControlType,
         hostName |-> res.item_list[k].property_value_map.HostName]]

TypeName(name) == IF name = "retrieve_panels" THEN "Lnl_Panel" ELSE "Lnl_Reader"

\* list.extend
extend_prepends(list, more) == more \o list
extend(list, more) == list \o more

\* for i in range(2, pageCount + 1): is nxt still in the range
range_stops_early(nxt, count) == nxt < count
in_range(nxt, count) == nxt < count + 1

\* retrieve_readers: if result["count"] == 0: return readers
never_empty(res) == FALSE
no_readers(res) == res.count = 0

\* retrieve_panels: self.panels = []
keep_old_panels == panels
new_panel_list == <<>>

(* ------------------- retrieve_panels, retrieve_readers ---------------- *)
Active(c) == pc[c] # "idle"

Enter(c, name, panelId) ==
    /\ pc[c] = "idle"
    /\ pc' = [pc EXCEPT ![c] = "request"]
    /\ op' = [op EXCEPT ![c] = name]
    /\ arg' = [arg EXCEPT ![c] = panelId]
    /\ i' = [i EXCEPT ![c] = 1]
    /\ pageCount' = [pageCount EXCEPT ![c] = 0]
    /\ result' = [result EXCEPT ![c] = NoResult]
    /\ readers' = [readers EXCEPT ![c] = <<>>]
    /\ ret' = [ret EXCEPT ![c] = NoRet]
    /\ got' = [got EXCEPT ![c] = <<>>]
    /\ overlapped' = [d \in Callers |->
                        IF d = c THEN \E e \in Callers \ {c} : Active(e)
                        ELSE overlapped[d] \/ Active(d)]
    /\ UNCHANGED <<clientVars, wireVars, srv, issued>>

retrieve_panels_call(c) ==
    /\ Enter(c, "retrieve_panels", -1)
    /\ panels' = new_panel_list
    /\ panelPages' = <<>>
    /\ hadPanels' = (panels # <<>>)

retrieve_readers_call(c) ==
    \E panelId \in PanelIds :
        /\ Enter(c, "retrieve_readers", panelId)
        /\ UNCHANGED <<panels, panelPages, hadPanels>>

\* result = self.request_instances(type, i[, panelId])
request_page(c) ==
    /\ pc[c] = "request"
    /\ LET req == Request("GET", request_instances_url(TypeName(op[c]), i[c], arg[c]),
                          headers, <<>>)
           response == ServerInstances(req)
       IN /\ Send(req, response)
          /\ result' = [result EXCEPT ![c] = parse_response(response)]
          /\ got' = [got EXCEPT ![c] =
                        Append(@, [method |-> req.method, url |-> req.url,
                                   page |-> parse_response(response)])]
          /\ panelPages' = IF op[c] = "retrieve_panels"
                           THEN Append(panelPages, parse_response(response).item_list)
                           ELSE panelPages
    /\ pc' = [pc EXCEPT ![c] = "extend"]
    /\ UNCHANGED <<clientVars, panels, op, arg, i, pageCount, readers, ret, overlapped,
                   srv, issued, hadPanels>>

\* pageCount = result['total_pages'] (first page); <list>.extend(...); the loop test
extend_page(c) ==
    /\ pc[c] = "extend"
    /\ IF op[c] = "retrieve_readers" /\ i[c] = 1 /\ no_readers(result[c])
       THEN /\ pc' = [pc EXCEPT ![c] = "return"]
            /\ UNCHANGED <<panels, readers, pageCount, i>>
       ELSE LET count == IF i[c] = 1 THEN result[c].total_pages ELSE pageCount[c]
            IN /\ pageCount' = [pageCount EXCEPT ![c] = count]
               /\ IF op[c] = "retrieve_panels"
                  THEN /\ panels' = extend(panels, get_panels_from_result(result[c]))
                       /\ UNCHANGED readers
                  ELSE /\ readers' = [readers EXCEPT ![c] =
                                         extend(@, get_readers_from_result(result[c]))]
                       /\ UNCHANGED panels
               /\ IF in_range(i[c] + 1, count)
                  THEN /\ i' = [i EXCEPT ![c] = @ + 1]
                       /\ pc' = [pc EXCEPT ![c] = "request"]
                  ELSE /\ pc' = [pc EXCEPT ![c] = "return"]
                       /\ UNCHANGED i
    /\ UNCHANGED <<clientVars, wireVars, op, arg, result, ret, got, overlapped, srv,
                   issued, panelPages, hadPanels>>

\* return self.panels / return readers
return_list(c) ==
    /\ pc[c] = "return"
    /\ ret' = [ret EXCEPT ![c] =
                  Return(IF op[c] = "retrieve_panels" THEN panels ELSE readers[c])]
    /\ pc' = [pc EXCEPT ![c] = "idle"]
    /\ UNCHANGED <<clientVars, wireVars, panels, op, arg, i, pageCount, result, readers,
                   got, overlapped, srv, issued, panelPages, hadPanels>>

get_panels(c) ==
    /\ Finish(c, "get_panels", -1, Return(panels))
    /\ UNCHANGED <<clientVars, wireVars, panels, srv, issued, panelPages, hadPanels>>

(* --------------------------- get_directories -------------------------- *)
DirectoryOutcomes ==
    {Response(200, JsonBody([item_list |-> <<PanelItem(1)>>])),
     Response(200, JsonBody([item_list |-> <<>>])),
     Response(500, TextBody("error"))}

get_directories_result(response) ==
    IF response.status_code = 200
    THEN Return([k \in DOMAIN parse_response(response).item_list |->
                    [Id |-> parse_response(response).item_list[k].property_value_map.ID,
                     Name |-> parse_response(response).item_list[k].property_value_map.Name]])
    ELSE Return(None)

get_directories(c) ==
    \E response \in DirectoryOutcomes :
        /\ Send(Request("GET", build_uri_with_version("directories", "1.0"), headers, <<>>),
                response)
        /\ Finish(c, "get_directories", -1, get_directories_result(response))
        /\ UNCHANGED <<clientVars, panels, srv, issued, panelPages, hadPanels>>

(* -------------------------- request_cardholder ------------------------ *)
CardholderOutcomes ==
    {Response(200, JsonBody([item_list |-> <<>>, total_items |-> 0])),
     Response(200, TextBody("<html>"))}

request_cardholder_url(autoload_badge, cardholder_filter, badges_filter) ==
    build_uri_with_version("cardholders", "1.2")
        \o (IF autoload_badge THEN <<"&auto_load_badge=true">> ELSE <<>>)
        \o (IF cardholder_filter # None THEN <<"&cardholder_filter=", cardholder_filter[1]>>
            ELSE <<>>)
        \o (IF badges_filter # None THEN <<"&badges_filter=", badges_filter[1]>> ELSE <<>>)

request_cardholder(c) ==
    \E autoload_badge \in BOOLEAN, cardholder_filter \in {None, <<"lastname=\"Lake\"">>},
       response \in CardholderOutcomes :
        /\ Send(Request("GET", request_cardholder_url(autoload_badge, cardholder_filter, None),
                        headers, <<>>),
                response)
        /\ Finish(c, "request_cardholder", -1,
                  IF parse_response_raises(response) THEN Raise("JSONDecodeError")
                  ELSE Return(<<parse_response(response)>>))
        /\ UNCHANGED <<clientVars, panels, srv, issued, panelPages, hadPanels>>

(* ------------------------------- OpenDoor ----------------------------- *)
\* attributes of self.client: those of requests.Session, and base_url (set in __init__)
session_attributes ==
    {"headers", "verify", "base_url", "get", "post", "put", "patch", "delete", "head",
     "options", "request", "send", "close"}

\* def build_uri_with_version(self, method_name, version): two arguments are required
build_uri_with_version_parameters == {"method_name", "version"}

DoorOutcomes == {Response(200, TextBody("")), Response(500, TextBody("door fault"))}

execute_method(reader) ==
    [method_name |-> "OpenDoor",
     type_name |-> "Lnl_Reader",
     property_value_map |-> [PanelID |-> ToString(reader.panelId),
                             ReaderID |-> ToString(reader.id)],
     in_parameter_value_map |-> <<>>]

\* line 236: self.client.post_json is looked up, then build_uri_with_version("execute_method")
\* is called with one argument
OpenDoor_raises ==
    IF "post_json" \notin session_attributes THEN "AttributeError"
    ELSE IF build_uri_with_version_parameters # {"method_name"} THEN "TypeError"
    ELSE ""

OpenDoor(c) ==
    \E reader \in ReaderArgs, response \in DoorOutcomes :
        /\ IF OpenDoor_raises # ""
           THEN /\ UNCHANGED wireVars
                /\ Finish(c, "OpenDoor", reader, Raise(OpenDoor_raises))
           ELSE /\ Send(Request("POST", <<API_URL, "execute_method">>, headers,
                                execute_method(reader)),
                        response)
                /\ Finish(c, "OpenDoor", reader,
                          IF response.status_code = 200 THEN Return(SUCCESS)
                          ELSE Return(ServerErrorMessage(response.status_code,
                                                         response.body.text[1])))
        /\ UNCHANGED <<clientVars, panels, srv, issued, panelPages, hadPanels>>

(* ------------------------------ the server ---------------------------- *)
\* the server's data changes between calls: a page is added, removed or rewritten, or
\* the server starts or stops reporting the item count
ServerChange ==
    /\ AllIdle
    /\ \/ /\ Len(srv.pages) < MaxPages
          /\ \E page \in PageLists : srv' = [srv EXCEPT !.pages = Append(@, page)]
       \/ /\ srv.pages # <<>>
          /\ srv' = [srv EXCEPT !.pages = SubSeq(@, 1, Len(@) - 1)]
       \/ \E k \in DOMAIN srv.pages :
             \E page \in PageLists \ {srv.pages[k]} :
                srv' = [srv EXCEPT !.pages[k] = page]
       \/ srv' = [srv EXCEPT !.counted = ~@]
    /\ UNCHANGED <<clientVars, callVars, wireVars, panels, issued, panelPages, hadPanels>>

(* --------------------------- specifications --------------------------- *)
\* The caller of the sequential specifications: each call ends before the next starts.
Main == CHOOSE c \in Callers : \A d \in Callers : c <= d

\* Pagination: the retrieve_* calls of one caller against a server whose data changes
\* between calls.
Next ==
    \/ retrieve_panels_call(Main)
    \/ retrieve_readers_call(Main)
    \/ request_page(Main)
    \/ extend_page(Main)
    \/ return_list(Main)
    \/ get_panels(Main)
    \/ ServerChange

Spec == Init /\ [][Next]_vars

\* Session: every method that puts a request on the wire, called by one caller in any
\* order, against a server holding two pages.
SessionInit == Init /\ srv = [pages |-> <<<<1>>, <<2>>>>, counted |-> TRUE]

NextSession ==
    \/ sign_in(Main)
    \/ get_directories(Main)
    \/ request_cardholder(Main)
    \/ OpenDoor(Main)
    \/ retrieve_panels_call(Main)
    \/ retrieve_readers_call(Main)
    \/ request_page(Main)
    \/ extend_page(Main)
    \/ return_list(Main)

SpecSession == SessionInit /\ [][NextSession]_vars

\* Several callers of retrieve_panels on one client, interleaved statement by statement.
NextConc ==
    \E c \in Callers :
        \/ retrieve_panels_call(c)
        \/ request_page(c)
        \/ extend_page(c)
        \/ return_list(c)

SpecConc == Init /\ [][NextConc]_vars

(* ------------------------------ properties ---------------------------- *)
\* caller c's call of the method has ended by returning
Returned(c, name) == pc[c] = "idle" /\ op[c] = name /\ ret[c].kind = "return"

\* the item lists of the pages caller c's call received, concatenated in the order received
OwnItems(c) == Concat([k \in DOMAIN got[c] |-> got[c][k].page.item_list])

Projected(name, items) ==
    IF name = "retrieve_panels"
    THEN get_panels_from_result([item_list |-> items])
    ELSE get_readers_from_result([item_list |-> items])

\* the k-th request of caller c's call is the GET of page k of the instances of the type
IsPageRequest(c, k) ==
    /\ got[c][k].method = "GET"
    /\ SubSeq(got[c][k].url, 1, 4) = <<API_URL, "instances", "?version=", "1.0">>
    /\ Param(got[c][k].url, "&type_name=") = TypeName(op[c])
    /\ Param(got[c][k].url, "&page_number=") = ToString(k)

\* C1: when the first page reports total_pages = N >= 1 (and, for retrieve_readers, a
\* count above zero), a call of retrieve_panels or retrieve_readers that has returned
\* sent exactly N requests, the GETs of pages 1, 2, ..., N of 'instances' in that order,
\* and returned the projection of the pages' item lists concatenated in page order.
C1_AllPagesInOrder ==
    \A c \in Callers :
        \A name \in {"retrieve_panels", "retrieve_readers"} :
            (/\ Returned(c, name)
             /\ got[c] # <<>>
             /\ got[c][1].page.total_pages >= 1
             /\ name = "retrieve_readers" => got[c][1].page.count > 0)
            => /\ Len(got[c]) = got[c][1].page.total_pages
               /\ \A k \in DOMAIN got[c] : IsPageRequest(c, k)
               /\ ret[c].val = Projected(name, OwnItems(c))

\* a retrieve_panels call over two pages holding different rows has returned both, in order
C1_Witness ==
    \E c \in Callers :
        /\ Returned(c, "retrieve_panels")
        /\ Len(got[c]) = 2
        /\ Len(ret[c].val) = 2
        /\ ret[c].val[1].id = 2
        /\ ret[c].val[2].id = 1

\* C2: a retrieve_readers call whose first page reports count = 0 sends exactly one
\* request and returns the empty list, whatever total_pages and item_list that page has.
C2_ZeroCountStops ==
    \A c \in Callers :
        (/\ Returned(c, "retrieve_readers")
         /\ got[c] # <<>>
         /\ got[c][1].page.count = 0)
        => /\ Len(got[c]) = 1
           /\ ret[c].val = <<>>

\* such a call, on a first page that announces two pages and carries an item
C2_Witness ==
    \E c \in Callers :
        /\ Returned(c, "retrieve_readers")
        /\ Len(got[c]) = 1
        /\ got[c][1].page.count = 0
        /\ got[c][1].page.total_pages = 2
        /\ got[c][1].page.item_list # <<>>
        /\ ret[c].val = <<>>

\* C8: once a retrieve_panels call has completed and no call is in progress, the cached
\* list, which is what get_panels returns, is exactly the projection of the pages of the
\* most recent retrieve_panels call in order: nothing of an earlier call is left in it.
C8_CacheIsLastCall ==
    (AllIdle /\ panelPages # <<>>)
    => /\ panels = Projected("retrieve_panels", Concat(panelPages))
       /\ \A c \in Callers : Returned(c, "get_panels") => ret[c].val = panels

\* get_panels returns the empty list after a retrieve_panels call that found no items,
\* entered while the cache held the items of an earlier call
C8_Witness ==
    \E c \in Callers :
        /\ Returned(c, "get_panels")
        /\ hadPanels
        /\ panelPages # <<>>
        /\ ret[c].val = <<>>

\* C9: with retrieve_panels calls of several callers interleaved, the list a call returns
\* can differ from the concatenation of the call's own pages, and it differs only for a
\* call during which another call was in progress.
C9_DivergesOnlyWhenOverlapped ==
    \A c \in Callers :
        (/\ Returned(c, "retrieve_panels")
         /\ ret[c].val # Projected("retrieve_panels", OwnItems(c)))
        => overlapped[c]

\* a call has returned a list that is not its own pages in order, and the cache it left
\* is not either
C9_Witness ==
    \E c \in Callers :
        /\ Returned(c, "retrieve_panels")
        /\ AllIdle
        /\ ret[c].val # Projected("retrieve_panels", OwnItems(c))
        /\ panels # Projected("retrieve_panels", OwnItems(c))

\* the step puts a request on the wire
Sends == wireSeq' # wireSeq

\* the step is a whole sign_in call of the caller
SignInStep == Sends /\ op'[Main] = "sign_in" /\ pc'[Main] = "idle"

\* the last call was sign_in, and lastResp is what its POST came back with
AfterSignIn == pc[Main] = "idle" /\ op[Main] = "sign_in"

HasToken(response) ==
    /\ response.kind = "response"
    /\ response.body.json
    /\ "session_token" \in DOMAIN response.body.value

\* C3: while no sign_in has succeeded the client holds no token and its requests carry
\* no Session-Token header; every request sent after a sign_in that succeeded on a
\* response carrying session_token T has the header Session-Token: T, T being the token
\* of the most recent such sign_in.
C3_RequestsCarryIssuedToken ==
    [][/\ Sends => HeaderToken(lastReq'.headers) = issued
       /\ issued = NoToken => session_token = NoToken
       /\ (SignInStep /\ lastResp'.status_code = 200 /\ HasToken(lastResp'))
            => issued' = lastResp'.body.value["session_token"]]_vars

\* a page of instances has been requested with the token of a sign_in in its header
C3_Witness ==
    /\ lastReq.method = "GET"
    /\ Len(lastReq.url) > 1
    /\ lastReq.url[2] = "instances"
    /\ issued = "T2"
    /\ HeaderToken(lastReq.headers) = "T2"

\* C4: a sign_in whose POST fails at the connection returns (does not raise) a message
\* that contains the word "Connection".
C4_ConnectionFailureIsReported ==
    (AfterSignIn /\ lastResp.kind = "failure")
    => /\ ret[Main].kind = "return"
       /\ Contains(ret[Main].val, "Connection")

\* a sign_in has ended on a connection failure
C4_Witness ==
    /\ AfterSignIn
    /\ lastResp.kind = "failure"
    /\ lastReq.method = "POST"
    /\ ret[Main].kind = "return"

\* C10: a sign_in that ends on a connection failure or on an error status (400 and above)
\* leaves the stored token and the header map as they were before the call.
C10_FailedSignInKeepsSession ==
    [][(SignInStep /\ (lastResp'.kind = "failure" \/ lastResp'.status_code >= 400))
         => (session_token' = session_token /\ headers' = headers)]_vars

\* a sign_in has been refused with status 401 while a token of an earlier sign_in is held
C10_Witness ==
    /\ AfterSignIn
    /\ lastResp.kind = "response"
    /\ lastResp.status_code = 401
    /\ session_token = "T1"
    /\ HeaderToken(headers) = "T1"
    /\ HeaderToken(lastReq.headers) = "T1"

\* C6: sign_in succeeds on status 200 (Success is returned when the body carries a
\* token), and on every other status returns the server-error message with the status
\* code and the reason.
C6_Only200Succeeds ==
    (AfterSignIn /\ lastResp.kind = "response")
    => /\ (lastResp.status_code = 200 /\ HasToken(lastResp))
            => (ret[Main] = Return(SUCCESS)
                /\ session_token = lastResp.body.value["session_token"])
       /\ lastResp.status_code # 200
            => ret[Main] = Return(ServerErrorMessage(lastResp.status_code, lastResp.reason))

\* C7: sign_in always ends by returning a string, whatever its POST came back with.
C7_SignInNeverRaises ==
    AfterSignIn => ret[Main].kind = "return"

\* C5: OpenDoor on the reader with panel id 3 and reader id 7 sends one POST to
\* execute_method with the envelope for that reader, returns Success on status 200, and on
\* status 500 returns a message containing the status code and the body text.
C5_OpenDoorPosts ==
    (pc[Main] = "idle" /\ op[Main] = "OpenDoor" /\ arg[Main] = [panelId |-> 3, id |-> 7])
    => /\ ret[Main].kind = "return"
       /\ lastReq.method = "POST"
       /\ SubSeq(lastReq.url, 1, 2) = <<API_URL, "execute_method">>
       /\ lastReq.body = [method_name |-> "OpenDoor", type_name |-> "Lnl_Reader",
                          property_value_map |-> [PanelID |-> "3", ReaderID |-> "7"],
                          in_parameter_value_map |-> <<>>]
       /\ lastResp.status_code = 200 => ret[Main].val = SUCCESS
       /\ lastResp.status_code = 500
            => (Contains(ret[Main].val, "500") /\ Contains(ret[Main].val, lastResp.body.text[1]))

====
